---- MODULE Spec2Model ----
(***************************************************************************)
(* A model of transport::TcpConnection                                     *)
(* (src/maidsafe/transport/tcpconnection.cc): one connection, its socket,  *)
(* its deadline timer, its buffer, and the completion handlers that the    *)
(* io_service runs one at a time.                                          *)
(*                                                                         *)
(* The asio objects are modelled by what the code can observe of them:     *)
(*  - socket_.close() completes every socket operation still in flight     *)
(*    with operation_aborted; an operation that had already completed      *)
(*    keeps the error code it completed with;                              *)
(*  - socket_.async_connect() opens a socket that is not open (the open    *)
(*    itself is taken to succeed);                                         *)
(*  - timer_.cancel() and timer_.expires_from_now() abort the wait that    *)
(*    has not expired; a wait that has expired already has its handler     *)
(*    queued with a success code, and cancelling does not change that.     *)
(***************************************************************************)
EXTENDS Integers, Sequences, FiniteSets, TLC

VARIABLES
  role,                  \* "initiator" (remote endpoint) or "responder" (accepted socket)
  started,               \* the owner has made its first call on the connection
  socket_open,           \* socket_.is_open()
  ops,                   \* socket operations whose handler has not run yet, in issue order
  timer_armed,           \* timer_ has a wait that has neither expired nor been aborted
  timer_expiry,          \* the duration of the last timer_.expires_from_now()
  timer_ready,           \* queued HandleTimeout calls, success code, wait still current
  timer_stale,           \* queued HandleTimeout calls, success code, cancelled too late
  timer_aborted,         \* queued HandleTimeout calls, operation_aborted
  buffer,                \* buffer_: a sequence of bytes
  timeout_for_response,  \* timeout_for_response_
  registered,            \* the Transport's registry holds the connection
  removeCalls,           \* calls of transport_->RemoveConnection
  closeCalls,            \* calls of Close()
  errors,                \* the values passed to (*transport_->on_error_), in order
  delivered,             \* calls of (*transport_->on_message_received_)
  last_data,             \* the payload passed to the last of them
  issued,                \* the socket operations issued so far
  crashed,               \* the process has ended (undefined behaviour in Send)
  assert_failed,         \* an assert() of Send has been violated
  lastSend,              \* the timeout argument of the most recent Send
  closedByTimer,         \* the socket was last closed by HandleTimeout
  readInTime,            \* HandleRead has dispatched a read that completed before its deadline
  ownerCloses,           \* Close() calls made by the owner
  framesIn,              \* length prefixes the peer has delivered
  step                   \* what the last step was

vars == << role, started, socket_open, ops, timer_armed, timer_expiry,
           timer_ready, timer_stale, timer_aborted, buffer,
           timeout_for_response, registered, removeCalls, closeCalls, errors,
           delivered, last_data, issued, crashed, assert_failed, lastSend, closedByTimer,
           readInTime, ownerCloses, framesIn, step >>

(***************************************************************************)
(* Bounds of the model.                                                    *)
(***************************************************************************)
\* the peer delivers at most this many length prefixes to the connection
MaxFrames == 2
\* the owner calls Close() at most this many times
MaxOwnerCloses == 2

(***************************************************************************)
(* Constants of the transport (declared in transport.h).                   *)
(***************************************************************************)
kImmediateTimeout == 0
kMinTimeout == 2
kDefaultInitialTimeout == 5
kTimeoutFactor == 1
kMaxTransportMessageSize == 2
SizeofDataSize == 4

\* the timeouts a caller or the message handler passes
Timeouts == {kImmediateTimeout, 7}

\* the payloads of the model: sizes 0 .. kMaxTransportMessageSize + 1
Payloads == { <<>>, <<1>>, <<2, 1>>, <<1, 2, 3>> }

\* the lengths a peer may put in a length prefix
WireLengths == 0 .. (kMaxTransportMessageSize + 1)

\* a byte of memory that has been allocated and not written
Uninit == 256
\* a byte whose value the language does not define
Garbage == 257

Max(a, b) == IF a >= b THEN a ELSE b

(***************************************************************************)
(* The connection as one record, so that a handler that calls Close(),     *)
(* StartTimeout(), Send() ... is the composition of their effects.         *)
(***************************************************************************)
Cur ==
  [ socket_open |-> socket_open, ops |-> ops, timer_armed |-> timer_armed,
    timer_expiry |-> timer_expiry, timer_ready |-> timer_ready,
    timer_stale |-> timer_stale, timer_aborted |-> timer_aborted,
    buffer |-> buffer, timeout_for_response |-> timeout_for_response,
    registered |-> registered, removeCalls |-> removeCalls,
    closeCalls |-> closeCalls, errors |-> errors, delivered |-> delivered,
    last_data |-> last_data, issued |-> issued, crashed |-> crashed, assert_failed |-> assert_failed,
    lastSend |-> lastSend, closedByTimer |-> closedByTimer ]

Become(s) ==
  /\ socket_open' = s.socket_open
  /\ ops' = s.ops
  /\ timer_armed' = s.timer_armed
  /\ timer_expiry' = s.timer_expiry
  /\ timer_ready' = s.timer_ready
  /\ timer_stale' = s.timer_stale
  /\ timer_aborted' = s.timer_aborted
  /\ buffer' = s.buffer
  /\ timeout_for_response' = s.timeout_for_response
  /\ registered' = s.registered
  /\ removeCalls' = s.removeCalls
  /\ closeCalls' = s.closeCalls
  /\ errors' = s.errors
  /\ delivered' = s.delivered
  /\ last_data' = s.last_data
  /\ issued' = s.issued
  /\ crashed' = s.crashed
  /\ assert_failed' = s.assert_failed
  /\ lastSend' = s.lastSend
  /\ closedByTimer' = s.closedByTimer

(***************************************************************************)
(* Buffer and framing.                                                     *)
(***************************************************************************)
\* buffer_.Allocate(n): n bytes, not yet written
Allocate(n) == [i \in 1 .. n |-> Uninit]

\* *reinterpret_cast<DataSize*>(buffer_.Data()) = n, native (little endian) order
EncodeSize(n) == [i \in 1 .. SizeofDataSize |-> (n \div (256 ^ (i - 1))) % 256]

RECURSIVE DecodeFrom(_, _)
DecodeFrom(b, i) ==
  IF i > SizeofDataSize THEN 0 ELSE b[i] + 256 * DecodeFrom(b, i + 1)

\* *reinterpret_cast<DataSize*>(buffer_.Data())
DecodeSize(b) == DecodeFrom(b, 1)

\* the outcomes of the assignment through reinterpret_cast<std::string*>:
\* the payload's bytes, bytes of no defined value, or the end of the process
UbOutcomes == {"bytes", "garbage", "crash"}

(***************************************************************************)
(* asio: the socket and the timer.                                         *)
(***************************************************************************)
\* socket_.close(): every operation in flight completes with operation_aborted
CloseSocket(s) ==
  [s EXCEPT !.socket_open = FALSE,
            !.ops = [i \in DOMAIN s.ops |->
                       IF s.ops[i].st = "pending"
                       THEN [s.ops[i] EXCEPT !.st = "aborted"]
                       ELSE s.ops[i]]]

\* timer_.cancel(): the wait in progress is aborted; a handler already queued
\* with a success code stays queued with it
CancelTimer(s) ==
  [s EXCEPT !.timer_armed = FALSE,
            !.timer_aborted = IF s.timer_armed THEN @ + 1 ELSE @,
            !.timer_stale = @ + s.timer_ready,
            !.timer_ready = 0]

\* asio::async_read / async_write / async_connect with a handler bound to
\* shared_from_this(); n is the number of bytes to transfer (1 for a connect).
\* A transfer of no bytes, or one on a closed socket, is complete at once.
\* early: the operation completed while the deadline had not passed
IssueOp(s, kind, n) ==
  [s EXCEPT !.ops = Append(@, [kind |-> kind,
                               st |-> IF ~s.socket_open THEN "error"
                                      ELSE IF n = 0 THEN "ok"
                                      ELSE "pending",
                               early |-> s.timer_armed]),
            !.issued = @ + 1]

\* (*transport_->on_error_)(e)
Report(s, e) == [s EXCEPT !.errors = Append(@, e)]

(***************************************************************************)
(* TcpConnection.                                                          *)
(***************************************************************************)
Close(s) ==
  LET a == CloseSocket(s)
      b == CancelTimer(a)
  IN  [b EXCEPT !.registered = FALSE,
                !.removeCalls = @ + 1,
                !.closeCalls = @ + 1]

StartTimeout(s, timeout) ==
  [CancelTimer(s) EXCEPT !.timer_armed = TRUE, !.timer_expiry = timeout]

\* StartReceiving arming the default timeout, whatever Send stored
StartReceiving_DefaultTimeout(s) ==
  LET a == [s EXCEPT !.buffer = Allocate(SizeofDataSize)]
      b == IssueOp(a, "read_size", SizeofDataSize)
  IN  StartTimeout(b, kDefaultInitialTimeout)

StartReceiving(s) ==
  LET a == [s EXCEPT !.buffer = Allocate(SizeofDataSize)]
      b == IssueOp(a, "read_size", SizeofDataSize)
  IN  StartTimeout(b, b.timeout_for_response)

\* HandleTimeout with its test inverted: it returns when the wait expired
HandleTimeout_Inverted(s, ec) ==
  IF ec = "ok" THEN s
  ELSE [CloseSocket(s) EXCEPT !.closedByTimer = TRUE]

\* HandleTimeout calling Close() where the code closes the socket
HandleTimeout_CallsClose(s, ec) ==
  IF ec # "ok" THEN s
  ELSE [Close(s) EXCEPT !.closedByTimer = TRUE]

HandleTimeout(s, ec) ==
  IF ec # "ok" THEN s
  ELSE [CloseSocket(s) EXCEPT !.closedByTimer = TRUE]

\* HandleSize cancelling the deadline before it reads the body
HandleSize_CancelsTimer(s, ec) ==
  IF ~s.socket_open THEN Close(Report(s, "kReceiveTimeout"))
  ELSE IF ec # "ok" THEN Close(Report(s, "kReceiveFailure"))
  ELSE LET size == DecodeSize(s.buffer)
           a == [CancelTimer(s) EXCEPT !.buffer = Allocate(size)]
       IN  IssueOp(a, "read_body", size)

\* HandleSize with the error code looked at before the socket
HandleSize_ErrorFirst(s, ec) ==
  IF ec # "ok" THEN Close(Report(s, "kReceiveFailure"))
  ELSE IF ~s.socket_open THEN Close(Report(s, "kReceiveTimeout"))
  ELSE LET size == DecodeSize(s.buffer)
           a == [s EXCEPT !.buffer = Allocate(size)]
       IN  IssueOp(a, "read_body", size)

HandleSize(s, ec) ==
  IF ~s.socket_open THEN Close(Report(s, "kReceiveTimeout"))
  ELSE IF ec # "ok" THEN Close(Report(s, "kReceiveFailure"))
  ELSE LET size == DecodeSize(s.buffer)
           a == [s EXCEPT !.buffer = Allocate(size)]
       IN  IssueOp(a, "read_body", size)

\* the timeout of a write of n bytes
WriteTimeout(n) == Max(n * kTimeoutFactor, kMinTimeout)

\* Send without the return that follows the size error
Send_NoReturn(s, data, timeout, is_response, ub) ==
  LET msg_size == Len(data)
      s0 == [s EXCEPT !.lastSend = timeout]
      s1 == IF msg_size > kMaxTransportMessageSize
            THEN Report(s0, "kMessageSizeTooLarge") ELSE s0
  IN  IF ub = "crash"
      THEN [s1 EXCEPT !.buffer = Allocate(msg_size + SizeofDataSize),
                      !.crashed = TRUE]
      ELSE
        LET b == [s1 EXCEPT
                    !.buffer = EncodeSize(msg_size) \o
                               (IF ub = "bytes" THEN data
                                ELSE [i \in 1 .. msg_size |-> Garbage]),
                    !.timeout_for_response = timeout]
        IN  IF is_response
            THEN LET a == [b EXCEPT !.assert_failed = @ \/ ~b.socket_open]
                     t == StartTimeout(a, WriteTimeout(msg_size))
                 IN  IssueOp(t, "write", Len(t.buffer))
            ELSE LET a == [b EXCEPT !.assert_failed = @ \/ b.socket_open]
                     t == StartTimeout(a, kDefaultInitialTimeout)
                     o == [t EXCEPT !.socket_open = TRUE,
                                    !.closedByTimer = FALSE]
                 IN  IssueOp(o, "connect", 1)

Send(s, data, timeout, is_response, ub) ==
  LET msg_size == Len(data)
      s0 == [s EXCEPT !.lastSend = timeout]
  IN  IF msg_size > kMaxTransportMessageSize
      THEN Report(s0, "kMessageSizeTooLarge")
      ELSE IF ub = "crash"
      THEN [s0 EXCEPT !.buffer = Allocate(msg_size + SizeofDataSize),
                      !.crashed = TRUE]
      ELSE
        LET b == [s0 EXCEPT
                    !.buffer = EncodeSize(msg_size) \o
                               (IF ub = "bytes" THEN data
                                ELSE [i \in 1 .. msg_size |-> Garbage]),
                    !.timeout_for_response = timeout]
        IN  IF is_response
            THEN LET a == [b EXCEPT !.assert_failed = @ \/ ~b.socket_open]
                     t == StartTimeout(a, WriteTimeout(msg_size))
                 IN  IssueOp(t, "write", Len(t.buffer))
            ELSE LET a == [b EXCEPT !.assert_failed = @ \/ b.socket_open]
                     t == StartTimeout(a, kDefaultInitialTimeout)
                     \* async_connect opens the socket
                     o == [t EXCEPT !.socket_open = TRUE,
                                    !.closedByTimer = FALSE]
                 IN  IssueOp(o, "connect", 1)

\* DispatchMessage starting the next receive without waiting for the write
DispatchMessage_ReceiveAtOnce(s, data, response, response_timeout, ub) ==
  LET a == [s EXCEPT !.delivered = @ + 1, !.last_data = data]
  IN  IF response = <<>> THEN a
      ELSE StartReceiving(Send(a, response, response_timeout, TRUE, ub))

DispatchMessage(s, data, response, response_timeout, ub) ==
  LET a == [s EXCEPT !.delivered = @ + 1, !.last_data = data]
  IN  IF response = <<>> THEN a
      ELSE Send(a, response, response_timeout, TRUE, ub)

\* HandleRead trusting the error code alone, without looking at the socket
HandleRead_NoOpenCheck(s, ec, response, response_timeout, ub) ==
  IF ec # "ok" THEN Close(Report(s, "kReceiveFailure"))
  ELSE LET data == s.buffer
           a == CancelTimer(s)
       IN  DispatchMessage(a, data, response, response_timeout, ub)

HandleRead(s, ec, response, response_timeout, ub) ==
  IF ~s.socket_open THEN Close(Report(s, "kReceiveTimeout"))
  ELSE IF ec # "ok" THEN Close(Report(s, "kReceiveFailure"))
  ELSE LET data == s.buffer
           a == CancelTimer(s)
       IN  DispatchMessage(a, data, response, response_timeout, ub)

\* HandleConnect trying the connect again after a failure
HandleConnect_Retry(s, ec) ==
  IF ~s.socket_open THEN Close(Report(s, "kSendTimeout"))
  ELSE IF ec # "ok" THEN IssueOp(Report(s, "kSendFailure"), "connect", 1)
  ELSE LET t == StartTimeout(s, WriteTimeout(Len(s.buffer)))
       IN  IssueOp(t, "write", Len(t.buffer))

HandleConnect(s, ec) ==
  IF ~s.socket_open THEN Close(Report(s, "kSendTimeout"))
  ELSE IF ec # "ok" THEN Close(Report(s, "kSendFailure"))
  ELSE LET t == StartTimeout(s, WriteTimeout(Len(s.buffer)))
       IN  IssueOp(t, "write", Len(t.buffer))

\* HandleWrite that always waits for a response
HandleWrite_AlwaysReceive(s, ec) ==
  IF ~s.socket_open THEN Close(Report(s, "kSendTimeout"))
  ELSE IF ec # "ok" THEN Close(Report(s, "kSendFailure"))
  ELSE StartReceiving(s)

HandleWrite(s, ec) ==
  IF ~s.socket_open THEN Close(Report(s, "kSendTimeout"))
  ELSE IF ec # "ok" THEN Close(Report(s, "kSendFailure"))
  ELSE IF s.timeout_for_response # kImmediateTimeout
       THEN StartReceiving(s)
       ELSE Close(s)


(***************************************************************************)
(* The state after construction: the Transport has made the connection     *)
(* and holds it in its registry; an initiator's socket is not open, a      *)
(* responder's socket has been accepted.                                   *)
(***************************************************************************)
NoStep == [h |-> "none", ec |-> "none", open |-> FALSE, byTimer |-> FALSE,
           stale |-> FALSE, reply |-> 0, errs |-> 0, sent |-> << >>]

Init ==
  /\ role \in {"initiator", "responder"}
  /\ started = FALSE
  /\ socket_open = (role = "responder")
  /\ ops = << >>
  /\ timer_armed = FALSE
  /\ timer_expiry = 0
  /\ timer_ready = 0
  /\ timer_stale = 0
  /\ timer_aborted = 0
  /\ buffer = << >>
  /\ timeout_for_response = kDefaultInitialTimeout
  /\ registered = TRUE
  /\ removeCalls = 0
  /\ closeCalls = 0
  /\ errors = << >>
  /\ delivered = 0
  /\ last_data = << >>
  /\ issued = 0
  /\ crashed = FALSE
  /\ assert_failed = FALSE
  /\ lastSend = kDefaultInitialTimeout
  /\ closedByTimer = FALSE
  /\ readInTime = FALSE
  /\ ownerCloses = 0
  /\ framesIn = 0
  /\ step = NoStep

\* the record of a step: who ran, with which error code, what the socket and
\* the error log were when it started, whether the timer handler that ran was
\* one a cancel came too late for, and the size of the reply the message
\* handler gave (sent: the payload the step passed to Send, set by the steps
\* that call Send)
Stp(h, ec, stale, reply) ==
  [h |-> h, ec |-> ec, open |-> socket_open, byTimer |-> closedByTimer,
   stale |-> stale, reply |-> reply, errs |-> Len(errors), sent |-> << >>]

\* the operations but the i-th: its handler is running
Without(i) == [Cur EXCEPT !.ops = SubSeq(ops, 1, i - 1) \o
                                  SubSeq(ops, i + 1, Len(ops))]

Completed(i, kind) == ops[i].kind = kind /\ ops[i].st # "pending"
InFlight(i, kind) == ops[i].kind = kind /\ ops[i].st = "pending"

(***************************************************************************)
(* The owner.                                                              *)
(***************************************************************************)
OwnerSend ==
  /\ ~crashed
  /\ role = "initiator" /\ ~started
  /\ \E data \in Payloads, timeout \in Timeouts, ub \in UbOutcomes :
       /\ Become(Send(Cur, data, timeout, FALSE, ub))
       /\ step' = [Stp("Send", "none", FALSE, 0) EXCEPT !.sent = data]
  /\ started' = TRUE
  /\ UNCHANGED << role, readInTime, ownerCloses, framesIn >>

OwnerStartReceiving ==
  /\ ~crashed
  /\ role = "responder" /\ ~started
  /\ Become(StartReceiving(Cur))
  /\ started' = TRUE
  /\ step' = Stp("StartReceiving", "none", FALSE, 0)
  /\ UNCHANGED << role, readInTime, ownerCloses, framesIn >>

OwnerClose ==
  /\ ~crashed
  /\ ownerCloses < MaxOwnerCloses
  /\ Become(Close(Cur))
  /\ ownerCloses' = ownerCloses + 1
  /\ step' = Stp("Close", "none", FALSE, 0)
  /\ UNCHANGED << role, started, readInTime, framesIn >>

(***************************************************************************)
(* The network and the clock.                                              *)
(***************************************************************************)
Complete(i, st, buf) ==
  /\ ~crashed
  /\ ops' = [ops EXCEPT ![i].st = st, ![i].early = timer_armed]
  /\ buffer' = buf
  /\ step' = Stp("complete", st, FALSE, 0)
  /\ UNCHANGED << role, started, socket_open, timer_armed, timer_expiry,
                  timer_ready, timer_stale, timer_aborted,
                  timeout_for_response, registered, removeCalls, closeCalls,
                  errors, delivered, last_data, issued, crashed,
                  assert_failed, lastSend, closedByTimer, readInTime,
                  ownerCloses >>

ConnectCompletes ==
  \E i \in DOMAIN ops :
    /\ InFlight(i, "connect")
    /\ Complete(i, "ok", buffer)
    /\ UNCHANGED framesIn

WriteCompletes ==
  \E i \in DOMAIN ops :
    /\ InFlight(i, "write")
    /\ Complete(i, "ok", buffer)
    /\ UNCHANGED framesIn

\* the peer's length prefix fills the buffer
SizeArrives ==
  \E i \in DOMAIN ops, n \in WireLengths :
    /\ InFlight(i, "read_size")
    /\ framesIn < MaxFrames
    /\ Complete(i, "ok", EncodeSize(n))
    /\ framesIn' = framesIn + 1

\* the peer's payload fills the buffer
BodyArrives ==
  \E i \in DOMAIN ops, p \in Payloads :
    /\ InFlight(i, "read_body")
    /\ Len(p) = Len(buffer)
    /\ Complete(i, "ok", p)
    /\ UNCHANGED framesIn

\* the operation ends with an error of the network or the peer
OpFails ==
  \E i \in DOMAIN ops :
    /\ ops[i].st = "pending"
    /\ Complete(i, "error", buffer)
    /\ UNCHANGED framesIn

\* the deadline passes: the wait's handler is queued with a success code
TimerExpires ==
  /\ ~crashed
  /\ timer_armed
  /\ timer_armed' = FALSE
  /\ timer_ready' = timer_ready + 1
  /\ step' = Stp("expire", "none", FALSE, 0)
  /\ UNCHANGED << role, started, socket_open, ops, timer_expiry, timer_stale,
                  timer_aborted, buffer, timeout_for_response, registered,
                  removeCalls, closeCalls, errors, delivered, last_data, issued,
                  crashed, assert_failed, lastSend, closedByTimer,
                  readInTime, ownerCloses, framesIn >>

(***************************************************************************)
(* The io_service runs one queued handler.                                 *)
(***************************************************************************)
RunHandleTimeout ==
  /\ ~crashed
  /\ \/ /\ timer_ready > 0
        /\ Become(HandleTimeout([Cur EXCEPT !.timer_ready = @ - 1], "ok"))
        /\ step' = Stp("HandleTimeout", "ok", FALSE, 0)
     \/ /\ timer_stale > 0
        /\ Become(HandleTimeout([Cur EXCEPT !.timer_stale = @ - 1], "ok"))
        /\ step' = Stp("HandleTimeout", "ok", TRUE, 0)
     \/ /\ timer_aborted > 0
        /\ Become(HandleTimeout([Cur EXCEPT !.timer_aborted = @ - 1],
                                "aborted"))
        /\ step' = Stp("HandleTimeout", "aborted", FALSE, 0)
  /\ UNCHANGED << role, started, readInTime, ownerCloses, framesIn >>

RunHandleConnect ==
  \E i \in DOMAIN ops :
    /\ ~crashed
    /\ Completed(i, "connect")
    /\ Become(HandleConnect(Without(i), ops[i].st))
    /\ step' = Stp("HandleConnect", ops[i].st, FALSE, 0)
    /\ UNCHANGED << role, started, readInTime, ownerCloses, framesIn >>

RunHandleWrite ==
  \E i \in DOMAIN ops :
    /\ ~crashed
    /\ Completed(i, "write")
    /\ Become(HandleWrite(Without(i), ops[i].st))
    /\ step' = Stp("HandleWrite", ops[i].st, FALSE, 0)
    /\ UNCHANGED << role, started, readInTime, ownerCloses, framesIn >>

RunHandleSize ==
  \E i \in DOMAIN ops :
    /\ ~crashed
    /\ Completed(i, "read_size")
    /\ Become(HandleSize(Without(i), ops[i].st))
    /\ step' = Stp("HandleSize", ops[i].st, FALSE, 0)
    /\ UNCHANGED << role, started, readInTime, ownerCloses, framesIn >>

\* the message handler of the application answers with any payload (none,
\* or one too large) and any timeout
RunHandleRead ==
  \E i \in DOMAIN ops, response \in Payloads, response_timeout \in Timeouts,
     ub \in UbOutcomes :
    /\ ~crashed
    /\ Completed(i, "read_body")
    /\ Become(HandleRead(Without(i), ops[i].st, response, response_timeout,
                         ub))
    /\ step' = [Stp("HandleRead", ops[i].st, FALSE, Len(response))
                  EXCEPT !.sent = response]
    /\ readInTime' = (readInTime \/
                        (socket_open /\ ops[i].st = "ok" /\ ops[i].early))
    /\ UNCHANGED << role, started, ownerCloses, framesIn >>

(***************************************************************************)
(* Specifications.  Spec: the owner makes its first call and the           *)
(* connection's own handlers do the rest.  SpecOwner: the owner may also   *)
(* call Close() at any time.  FairSpec: Spec, with every queued handler    *)
(* run in the end and every deadline passing in the end.                   *)
(***************************************************************************)
Handlers ==
  \/ RunHandleTimeout
  \/ RunHandleConnect
  \/ RunHandleWrite
  \/ RunHandleSize
  \/ RunHandleRead

Next ==
  \/ OwnerSend
  \/ OwnerStartReceiving
  \/ ConnectCompletes
  \/ WriteCompletes
  \/ SizeArrives
  \/ BodyArrives
  \/ OpFails
  \/ TimerExpires
  \/ RunHandleTimeout
  \/ RunHandleConnect
  \/ RunHandleWrite
  \/ RunHandleSize
  \/ RunHandleRead

NextOwner == Next \/ OwnerClose

Spec == Init /\ [][Next]_vars

SpecOwner == Init /\ [][NextOwner]_vars

FairSpec ==
  /\ Spec
  /\ WF_vars(OwnerSend \/ OwnerStartReceiving)
  /\ WF_vars(TimerExpires)
  /\ WF_vars(Handlers)

\* An accepted connection: the acceptor constructs the object around a
\* connected socket and calls StartReceiving(); it never calls Send() itself,
\* so no connect is ever issued.
InitResponder == Init /\ role = "responder"

NextResponder ==
  \/ OwnerStartReceiving
  \/ WriteCompletes
  \/ SizeArrives
  \/ BodyArrives
  \/ OpFails
  \/ TimerExpires
  \/ RunHandleTimeout
  \/ RunHandleWrite
  \/ RunHandleSize
  \/ RunHandleRead

\* the io_service runs every queued handler, an armed timer expires, and the
\* acceptor does start the connection; the peer owes nothing
FairResponder ==
  /\ InitResponder /\ [][NextResponder]_vars
  /\ WF_vars(OwnerStartReceiving)
  /\ WF_vars(TimerExpires)
  /\ WF_vars(RunHandleTimeout \/ RunHandleWrite \/ RunHandleSize \/ RunHandleRead)

(***************************************************************************)
(* The claims.                                                             *)
(***************************************************************************)
NonSizeErrors ==
  {"kReceiveTimeout", "kReceiveFailure", "kSendTimeout", "kSendFailure"}

LastError == IF errors = << >> THEN "none" ELSE errors[Len(errors)]

HasTerminalError(e) == \E i \in DOMAIN e : e[i] \in NonSizeErrors

\* the step just taken is a completion handler that found the socket open and
\* no error
SucceededIn(h) == step.h = h /\ step.ec = "ok" /\ step.open

Released == closeCalls > 0 /\ ~socket_open /\ ~registered

\* C1: every connection on which Send or StartReceiving has been invoked is
\* released in the end (Close() runs, RemoveConnection is called), given that
\* queued handlers run and deadlines pass.  Stated here for the connections
\* that have issued a socket operation and whose process has not ended.
C1_ReleaseLiveness == (issued > 0) ~> (crashed \/ Released)

\* C2: Close() is idempotent: however many times Close() has run, there has
\* been exactly one registry-removal notification.
C2_CloseIdempotent == closeCalls >= 1 => removeCalls = 1

\* the timeout-class error of a completion handler
TimeoutClass(h) ==
  IF h \in {"HandleConnect", "HandleWrite"} THEN "kSendTimeout"
  ELSE "kReceiveTimeout"

CompletionHandlers ==
  {"HandleConnect", "HandleWrite", "HandleSize", "HandleRead"}

\* C3: a completion handler that runs after HandleTimeout has closed the
\* socket reports exactly one error, the timeout-class error of its phase,
\* whatever error code its operation completed with.
C3_TimerWins ==
  (step.h \in CompletionHandlers /\ step.byTimer) =>
     /\ Len(errors) = step.errs + 1
     /\ LastError = TimeoutClass(step.h)

\* C3's case: the read failed on the network, the timer then closed the
\* socket, and HandleRead reported a timeout
C3_Witness ==
  /\ step.h = "HandleRead" /\ step.byTimer /\ step.ec = "error"
  /\ LastError = "kReceiveTimeout"

\* C4: once HandleRead has dispatched a read that completed before its
\* deadline, no timer wait that a cancel or a re-arm was meant to end closes
\* the open socket.
C4_NoSpuriousClose ==
  ~(readInTime /\ step.h = "HandleTimeout" /\ step.ec = "ok" /\ step.stale
      /\ step.open)

\* C5: in every state, a Send of a payload above the maximum size reports
\* kMessageSizeTooLarge once and changes nothing else of the connection (the
\* record of the call's timeout argument aside).
C5_OversizedSend ==
  \A data \in Payloads, timeout \in Timeouts, is_response \in BOOLEAN,
     ub \in UbOutcomes :
    Len(data) > kMaxTransportMessageSize =>
      Send(Cur, data, timeout, is_response, ub) =
        [Cur EXCEPT !.errors = Append(@, "kMessageSizeTooLarge"),
                    !.lastSend = timeout]

\* C5's case: the owner's Send of an oversized payload has returned
C5_Witness ==
  /\ step.h = "Send" /\ errors = << "kMessageSizeTooLarge" >>
  /\ issued = 0 /\ ~timer_armed /\ ~socket_open /\ closeCalls = 0
  /\ buffer = << >> /\ timeout_for_response = kDefaultInitialTimeout

\* C6: after a message is dispatched and the message handler gives an empty
\* reply, the connection is closed in the end: Close() runs, the socket is
\* closed and the connection leaves the registry.
C6_EmptyReplyCloses ==
  (SucceededIn("HandleRead") /\ step.reply = 0) ~> Released

\* C7: a step that reports a receive or send error also runs Close(); and
\* once such an error has been reported no operation is issued, no message is
\* delivered and no error is reported.
C7_ErrorsTerminal ==
  [][ /\ (errors' # errors /\ LastError' \in NonSizeErrors) =>
            /\ closeCalls' = closeCalls + 1
            /\ ~socket_open' /\ ~registered'
      /\ HasTerminalError(errors) =>
            /\ errors' = errors
            /\ delivered' = delivered
            /\ issued' = issued ]_vars

\* C7's case: a handler ran after the connection's error and found nothing
\* to do
C7_Witness ==
  /\ LastError = "kSendFailure" /\ closeCalls = 1
  /\ step.h = "HandleTimeout" /\ step.ec = "aborted"

\* C8: at most one socket operation is outstanding.
C8_SinglePending == Len(ops) <= 1

\* C8's case: a reply is being written after a dispatch, and nothing is read
C8_Witness ==
  /\ delivered > 0 /\ Len(ops) = 1
  /\ ops[1].kind = "write" /\ ops[1].st = "pending"

\* C9: when HandleWrite finds its write done and the last Send's timeout is
\* the immediate sentinel it calls Close() and issues no read; and after a
\* Close() no operation is issued.
C9_ImmediateNoReceive ==
  [][ /\ (SucceededIn("HandleWrite")' /\ lastSend = kImmediateTimeout) =>
            /\ closeCalls' = closeCalls + 1
            /\ issued' = issued
            /\ ops' = << >>
      /\ closeCalls > 0 => issued' = issued ]_vars

\* C9's case: scenario A has run to its end
C9_Witness ==
  /\ role = "initiator" /\ SucceededIn("HandleWrite")
  /\ lastSend = kImmediateTimeout /\ closeCalls = 1 /\ issued = 2
  /\ errors = << >>

\* C10: when HandleWrite finds its write done and the last Send's timeout T
\* is not the immediate sentinel, the length read is issued and the deadline
\* armed for it is T.
C10_ResponseTimeout ==
  (SucceededIn("HandleWrite") /\ lastSend # kImmediateTimeout) =>
     /\ timer_armed /\ timer_expiry = lastSend
     /\ Len(ops) = 1 /\ ops[1].kind = "read_size"
     /\ buffer = Allocate(SizeofDataSize)

\* C10's case: a reply has been written and the next receive has its deadline
C10_Witness ==
  /\ SucceededIn("HandleWrite") /\ delivered > 0
  /\ lastSend # kImmediateTimeout /\ timer_expiry = lastSend

\* the step just taken has called Send with a payload that Send accepted, and
\* the process has gone on
SendAccepted ==
  /\ ~crashed
  /\ Len(step.sent) <= kMaxTransportMessageSize
  /\ \/ step.h = "Send"
     \/ SucceededIn("HandleRead") /\ step.reply > 0

\* the step just taken has issued the write of a frame
WriteIssued ==
  \/ SucceededIn("HandleConnect")
  \/ SendAccepted /\ step.h = "HandleRead"

\* C11: the deadline armed for the write of a frame is
\* max(payload size x kTimeoutFactor, kMinTimeout), for the write that
\* HandleConnect issues as for the write that Send issues for a response (the
\* buffer holds the frame: the payload and the length field).
C11_WriteDeadline ==
  WriteIssued =>
    /\ timer_armed
    /\ timer_expiry =
         Max((Len(buffer) - SizeofDataSize) * kTimeoutFactor, kMinTimeout)

\* what a peer connection dispatches when the frame reaches it: HandleSize
\* on the length field, the body read of the size it allocates, HandleRead
PeerAfterSize(frame) ==
  HandleSize([Cur EXCEPT !.socket_open = TRUE, !.ops = << >>,
                         !.buffer = SubSeq(frame, 1, SizeofDataSize)],
             "ok")

PeerDispatched(frame) ==
  LET a == PeerAfterSize(frame)
      b == [a EXCEPT !.ops = << >>,
                     !.buffer = SubSeq(frame, SizeofDataSize + 1,
                                       SizeofDataSize + Len(a.buffer))]
  IN  HandleRead(b, "ok", << >>, kImmediateTimeout, "bytes").last_data

\* C12: the frame that Send builds for a payload p of at most the maximum
\* size is the length field holding size(p) followed by the bytes of p, in a
\* buffer of length-field-width + size(p) bytes, and a peer that decodes it
\* with HandleSize and HandleRead dispatches p.
C12_FramingRoundTrip ==
  SendAccepted =>
    /\ Len(buffer) = SizeofDataSize + Len(step.sent)
    /\ buffer = EncodeSize(Len(step.sent)) \o step.sent
    /\ PeerDispatched(buffer) = step.sent

\* the deadline of a responder's first length read has just passed, and the
\* peer has sent nothing
ReceiveDeadlinePassed ==
  /\ role = "responder" /\ framesIn = 0 /\ step.h = "expire"
  /\ Len(ops) = 1 /\ ops[1].kind = "read_size" /\ ops[1].st = "pending"

\* the timer has closed the socket, the read handler has reported
\* kReceiveTimeout, and nothing else, and Close() has run once
TimedOutOnce ==
  /\ closedByTimer /\ ~socket_open
  /\ errors = << "kReceiveTimeout" >>
  /\ closeCalls = 1 /\ removeCalls = 1 /\ ~registered
  /\ delivered = 0

\* the network has ended the read after all: data arrived, or an error
PeerActed ==
  \/ framesIn > 0
  \/ ops # << >> /\ ops[1].st = "error"

\* C13: when the deadline of a responder's StartReceiving passes with no data
\* received, and none arrives after it, then in the end the timer has closed
\* the socket, kReceiveTimeout has been reported exactly once and the
\* connection has been closed and removed exactly once, and that is how it
\* stays.
C13_ResponderTimeout ==
  ReceiveDeadlinePassed ~> ([]TimedOutOnce \/ PeerActed)

\* C13's case: scenario C has run to its end and the queue is empty
C13_Witness ==
  /\ role = "responder" /\ framesIn = 0 /\ TimedOutOnce
  /\ ops = << >> /\ timer_ready = 0 /\ timer_stale = 0 /\ timer_aborted = 0
  /\ step.h = "HandleSize" /\ step.ec = "aborted"

\* C14: a step of HandleTimeout whose wait expired closes the socket (which
\* ends the operations in flight) and leaves the registry, the count of
\* Close() and RemoveConnection calls, the error log, the messages
\* delivered, the buffer, the response timeout, the timer's setting and the
\* operations issued as they were; a step of HandleTimeout whose wait was
\* cancelled leaves in addition the socket and its operations as they were.
C14_TimeoutOnlySocket ==
  [][ step'.h = "HandleTimeout" =>
        /\ UNCHANGED << registered, removeCalls, closeCalls, errors,
                        delivered, last_data, buffer, timeout_for_response,
                        timer_armed, timer_expiry, issued, crashed,
                        assert_failed, lastSend >>
        /\ step'.ec = "ok" => ~socket_open' /\ Len(ops') = Len(ops)
        /\ step'.ec # "ok" =>
             UNCHANGED << socket_open, ops, closedByTimer, timer_ready,
                          timer_stale >> ]_vars

\* C14's case: HandleTimeout has just closed an open socket under an
\* operation in flight, and the connection is still registered
C14_Witness ==
  /\ step.h = "HandleTimeout" /\ step.ec = "ok" /\ step.open
  /\ ~socket_open /\ registered /\ closeCalls = 0 /\ errors = << >>
  /\ \E i \in DOMAIN ops : ops[i].st = "aborted"

\* C15: a completion handler reports kSendTimeout or kReceiveTimeout only
\* when the deadline timer has closed the socket; a socket the owner closed
\* with Close() while an operation was in flight makes no handler report a
\* timeout.
C15_TimeoutOnlyOnExpiry ==
  ( /\ step.h \in CompletionHandlers
    /\ Len(errors) = step.errs + 1
    /\ LastError \in {"kSendTimeout", "kReceiveTimeout"} )
  => step.byTimer

\* the deadline timer's wait is outstanding: it is armed, or it has expired
\* and HandleTimeout is queued to close the socket
DeadlineRunning == timer_armed \/ timer_ready > 0

OperationPending == \E i \in DOMAIN ops : ops[i].st = "pending"

\* C16: whenever a connect, a write, a length read or a body read is in
\* flight, the deadline timer's wait is outstanding or the socket is closed
\* (and the operation then is no longer in flight): no operation is left
\* without a deadline, the body read of HandleSize included.
C16_PendingGuarded == OperationPending => DeadlineRunning /\ socket_open

\* C16's case: the body read HandleSize issued is in flight under the
\* deadline StartReceiving armed
C16_Witness ==
  /\ step.h = "HandleSize" /\ step.ec = "ok"
  /\ \E i \in DOMAIN ops : ops[i].kind = "read_body" /\ ops[i].st = "pending"
  /\ timer_armed /\ socket_open

\* C17: when only the connection's own handlers call Close(), Close() and
\* RemoveConnection run at most once, and once Close() has run no
\* completion handler runs, no error is reported and no message is
\* delivered.
C17_CloseOnce ==
  [][ /\ closeCalls' <= 1 /\ removeCalls' <= 1
      /\ closeCalls > 0 =>
           /\ step'.h \notin CompletionHandlers
           /\ errors' = errors /\ delivered' = delivered
           /\ issued' = issued ]_vars

\* C17's case: a handler has closed the connection and a timer handler has
\* run after it
C17_Witness ==
  /\ closeCalls = 1 /\ removeCalls = 1 /\ ~registered
  /\ step.h = "HandleTimeout" /\ ops = << >>

\* C18: neither assertion of Send ever fails: the socket is open whenever
\* DispatchMessage sends a reply, also when the deadline had expired before
\* HandleRead cancelled it, and the socket is not open at the owner's first
\* Send on an initiator.
C18_SendAsserts == ~assert_failed

\* C18's case: the deadline expired, then HandleRead ran on the open socket,
\* was too late to cancel it, and sent a reply
C18_Witness ==
  /\ SucceededIn("HandleRead") /\ SendAccepted /\ step.reply > 0
  /\ timer_stale > 0 /\ ~assert_failed
  /\ \E i \in DOMAIN ops : ops[i].kind = "write"

\* C19: a body read is issued, and a buffer allocated for it, only for a
\* received length of at most kMaxTransportMessageSize, and no message
\* longer than that is dispatched.
C19_InboundSizeLimit ==
  /\ SucceededIn("HandleSize") => Len(buffer) <= kMaxTransportMessageSize
  /\ delivered > 0 => Len(last_data) <= kMaxTransportMessageSize

====
